---- MODULE Spec2Model ----
(***************************************************************************)
(* Model of the static-site build of honnip/website (src/main.rs).         *)
(*                                                                         *)
(* main: reset the output directory, copy the assets, fetch every          *)
(* discussion page by page (fetch_posts), then write index.html,           *)
(* about.html, posts.html and one posts/<slug>.html per published post.    *)
(*                                                                         *)
(* Strings the program splits or concatenates (titles, slugs, paths) are   *)
(* sequences of one-character strings; Option<T> is <<>> (None) or <<x>>   *)
(* (Some(x)).  The GraphQL API, the filesystem and the process environment *)
(* are the program's surroundings: every answer they can give is a         *)
(* nondeterministic choice.                                                *)
(***************************************************************************)
EXTENDS Integers, Sequences, FiniteSets, TLC

VARIABLES
    env,            \* process environment: which variables are set
    pc,             \* position of main / fetch_posts
    abort,          \* why the process ended early ("none" while it runs)
    dist,           \* the output directory: "absent" | "present"
    subdirs,        \* directories created under output/
    copied,         \* asset entries copied into output/
    copyIdx,        \* position of the WalkDir iteration
    files,          \* page files under output/: set of [path, template, posts, complete]
    queries,        \* the queries sent to the API, in order
    responses,      \* the pages the API answered with, in order
    articles,       \* fetch_posts: the accumulator
    cursor,         \* fetch_posts: Option<String>
    has_next_page,  \* fetch_posts: bool
    idx,            \* fetch_posts: position in the edges of the current page
    posts,          \* main: Option of the value fetch_posts returned
    postIdx         \* main: position of the `for post in posts` loop

vars == <<env, pc, abort, dist, subdirs, copied, copyIdx, files, queries,
          responses, articles, cursor, has_next_page, idx, posts, postIdx>>

-----------------------------------------------------------------------------
(* Bounds of the model *)

MaxQueries == 3

MaxEdges == 2

NumAssets == 1

MaxTitleLen == 5

-----------------------------------------------------------------------------
(* Values *)

None == <<>>

Some(x) == <<x>>

owner == "honnip"

repo == "website"

SeqsUpTo(S, n) == UNION {[1..k -> S] : k \in 0..n}

Chars == {"a", "b", "#"}

Titles == SeqsUpTo(Chars, MaxTitleLen)

CategoryNames == {"Published", "Draft", "", "published", "Ideas"}

\* the discussions the paginated build is run against
Discussions ==
    { [cursor |-> "c1", title |-> <<"a", "#", "b", "#", "a">>, category |-> "Published"],
      [cursor |-> "c2", title |-> <<"b", "#", "a">>, category |-> "Draft"] }

\* the discussions normalization alone is run against
AnyDiscussions == [cursor : {"c1"}, title : Titles, category : CategoryNames]

\* what one query execution can come back with: a page, or an error
Pages == [ok : {TRUE}, edges : SeqsUpTo(Discussions, MaxEdges), hasNextPage : BOOLEAN]

Failed == [ok |-> FALSE, edges |-> <<>>, hasNextPage |-> FALSE]

\* outcomes of create_html: File::create fails, write_into fails, or both succeed
CreateOutcomes == {"ok", "create_err", "write_err"}

-----------------------------------------------------------------------------
(* Pure functions *)

\* io::Error kinds remove_dir_all can report
ignore_not_found(e) == IF e = "NotFound" THEN "Ok" ELSE "Err"

generate_query(o, r, c) ==
    [owner |-> o, name |-> r, first |-> 1, after |-> c]

HashPositions(t) == {i \in 1..Len(t) : t[i] = "#"}

Min(S) == CHOOSE x \in S : \A y \in S : x <= y

Max(S) == CHOOSE x \in S : \A y \in S : x >= y

\* str::rsplit_once: what a split at the last delimiter would give
RSplitOnce(t) ==
    IF HashPositions(t) = {} THEN None
    ELSE LET i == Max(HashPositions(t))
         IN  Some(<<SubSeq(t, 1, i - 1), SubSeq(t, i + 1, Len(t))>>)

\* a split that falls back to an empty slug
SplitOrDefault(t) ==
    IF HashPositions(t) = {} THEN Some(<<t, <<>>>>)
    ELSE LET i == Min(HashPositions(t))
         IN  Some(<<SubSeq(t, 1, i - 1), SubSeq(t, i + 1, Len(t))>>)

\* str::split_once("#"): Option<(before, after)> at the first delimiter
SplitOnce(t) ==
    IF HashPositions(t) = {} THEN None
    ELSE LET i == Min(HashPositions(t))
         IN  Some(<<SubSeq(t, 1, i - 1), SubSeq(t, i + 1, Len(t))>>)

\* a status test that ignores the letter case of "Published"
StatusOfAnyCase(name) ==
    IF name \in {"Published", "published"} THEN "Published" ELSE "Draft"

StatusOf(name) == IF name = "Published" THEN "Published" ELSE "Draft"

\* a cursor that is only set once
KeepFirstCursor(cur, d) == IF cur = None THEN Some(d.cursor) ELSE cur

\* cursor = Some(discussion["cursor"])
NextCursor(cur, d) == Some(d.cursor)

\* the Post pushed for a discussion whose title split into (title, slug)
MakePost(d, parts) ==
    [title |-> parts[1], slug |-> parts[2], status |-> StatusOf(d.category)]

\* a per-post path built from the title
PostPathOfTitle(post) == <<"output/posts/">> \o post.title \o <<".html">>

PostPath(post) == <<"output/posts/">> \o post.slug \o <<".html">>

IndexPath == <<"output/index.html">>

AboutPath == <<"output/about.html">>

PostsPath == <<"output/posts.html">>

\* File::create(path) then template.write_into: the file replaces any at path
WriteFile(fs, path, template, data, complete) ==
    {f \in fs : f.path # path}
        \cup {[path |-> path, template |-> template, posts |-> data,
               complete |-> complete]}

-----------------------------------------------------------------------------
(* Initial states *)

StaleFiles ==
    {[path |-> IndexPath, template |-> "index", posts |-> <<>>, complete |-> TRUE]}

Init ==
    /\ env \in [token : BOOLEAN, owner_id : BOOLEAN]
    /\ pc = "remove_dir_all"
    /\ abort = "none"
    /\ \/ dist = "absent" /\ files = {} /\ subdirs = {} /\ copied = {}
       \/ dist = "present" /\ files = StaleFiles /\ subdirs = {"posts"}
          /\ copied = 1..NumAssets
    /\ copyIdx = 0
    /\ queries = <<>>
    /\ responses = <<>>
    /\ articles = <<>>
    /\ cursor = None
    /\ has_next_page = FALSE
    /\ idx = 1
    /\ posts = None
    /\ postIdx = 1

\* fetch_posts has just received its first page, holding one discussion
InitNorm ==
    /\ env = [token |-> TRUE, owner_id |-> TRUE]
    /\ pc = "edges"
    /\ abort = "none"
    /\ dist = "present" /\ files = {} /\ subdirs = {"posts"} /\ copied = 1..NumAssets
    /\ copyIdx = NumAssets + 1
    /\ queries = <<generate_query(owner, repo, None)>>
    /\ \E d \in AnyDiscussions, h \in BOOLEAN :
          responses = <<[ok |-> TRUE, edges |-> <<d>>, hasNextPage |-> h]>>
    /\ articles = <<>>
    /\ cursor = None
    /\ has_next_page = FALSE
    /\ idx = 1
    /\ posts = None
    /\ postIdx = 1

-----------------------------------------------------------------------------
(* main: the output directory and the assets *)

Fatal(why) == pc' = "aborted" /\ abort' = why

FetchVars == <<queries, responses, articles, cursor, has_next_page, idx>>

DirVars == <<dist, subdirs, copied, copyIdx, files>>

\* fs::remove_dir_all(dist).await.or_else(ignore_not_found)?
RemoveDirAll ==
    /\ pc = "remove_dir_all"
    /\ \E e \in (IF dist = "absent" THEN {"NotFound"} ELSE {"Success", "PermissionDenied"}) :
          LET result == IF e = "Success" THEN "Ok" ELSE ignore_not_found(e)
          IN  IF result = "Ok"
              THEN /\ dist' = "absent" /\ files' = {} /\ subdirs' = {} /\ copied' = {}
                   /\ pc' = "create_dist" /\ abort' = abort
              ELSE /\ Fatal("fs")
                   /\ UNCHANGED <<dist, files, subdirs, copied>>
    /\ UNCHANGED <<env, copyIdx, posts, postIdx>>
    /\ UNCHANGED FetchVars

\* fs::create_dir(dist).await?
CreateDist ==
    /\ pc = "create_dist"
    /\ \E ok \in BOOLEAN :
          IF ok THEN dist' = "present" /\ pc' = "create_posts_dir" /\ abort' = abort
                ELSE Fatal("fs") /\ dist' = dist
    /\ UNCHANGED <<env, subdirs, copied, copyIdx, files, posts, postIdx>>
    /\ UNCHANGED FetchVars

\* fs::create_dir(format!("{dist}/posts")).await?
CreatePostsDir ==
    /\ pc = "create_posts_dir"
    /\ \E ok \in BOOLEAN :
          IF ok THEN subdirs' = {"posts"} /\ pc' = "copy_assets" /\ abort' = abort
                ELSE Fatal("fs") /\ subdirs' = subdirs
    /\ UNCHANGED <<env, dist, copied, copyIdx, files, posts, postIdx>>
    /\ UNCHANGED FetchVars

\* one iteration of `for entry in WalkDir::new(asset)`; entry 0 is the root
CopyAsset ==
    /\ pc = "copy_assets"
    /\ copyIdx <= NumAssets
    /\ IF copyIdx = 0
       THEN copyIdx' = 1 /\ UNCHANGED <<copied, pc, abort>>
       ELSE \E ok \in BOOLEAN :
              IF ok THEN /\ copied' = copied \cup {copyIdx}
                         /\ copyIdx' = copyIdx + 1
                         /\ UNCHANGED <<pc, abort>>
                    ELSE Fatal("fs") /\ UNCHANGED <<copied, copyIdx>>
    /\ UNCHANGED <<env, dist, subdirs, files, posts, postIdx>>
    /\ UNCHANGED FetchVars

\* the walk is over: main calls fetch_posts
CopyDone ==
    /\ pc = "copy_assets"
    /\ copyIdx > NumAssets
    /\ pc' = "fetch_posts"
    /\ UNCHANGED <<env, abort, posts, postIdx>>
    /\ UNCHANGED DirVars
    /\ UNCHANGED FetchVars

-----------------------------------------------------------------------------
(* fetch_posts *)

\* std::env::var("GITHUB_TOKEN").expect(..), then the three `let mut`
FetchStart ==
    /\ pc = "fetch_posts"
    /\ IF env.token
       THEN /\ articles' = <<>> /\ cursor' = None /\ has_next_page' = FALSE
            /\ pc' = "loop" /\ abort' = abort
       ELSE /\ Fatal("token")
            /\ UNCHANGED <<articles, cursor, has_next_page>>
    /\ UNCHANGED <<env, queries, responses, idx, posts, postIdx>>
    /\ UNCHANGED DirVars

\* a loop whose accumulator is declared inside it
IssueQueryFreshVec ==
    /\ pc = "loop"
    /\ Len(queries) < MaxQueries
    /\ queries' = Append(queries, generate_query(owner, repo, cursor))
    /\ articles' = <<>>
    /\ pc' = "await"
    /\ UNCHANGED <<env, abort, responses, cursor, has_next_page, idx, posts, postIdx>>
    /\ UNCHANGED DirVars

\* octocrab.graphql(&json!({"query": generate_query(owner, repo, cursor)}))
IssueQuery ==
    /\ pc = "loop"
    /\ Len(queries) < MaxQueries
    /\ queries' = Append(queries, generate_query(owner, repo, cursor))
    /\ pc' = "await"
    /\ UNCHANGED <<env, abort, responses, articles, cursor, has_next_page, idx, posts, postIdx>>
    /\ UNCHANGED DirVars

\* .await returns Ok(discussions)
GraphqlOk ==
    /\ pc = "await"
    /\ \E p \in Pages : responses' = Append(responses, p)
    /\ idx' = 1
    /\ pc' = "edges"
    /\ UNCHANGED <<env, abort, queries, articles, cursor, has_next_page, posts, postIdx>>
    /\ UNCHANGED DirVars

\* an error that ends the loop and keeps what was fetched
GraphqlErrKeepPartial ==
    /\ pc = "await"
    /\ responses' = Append(responses, Failed)
    /\ posts' = Some(articles)
    /\ pc' = "index"
    /\ UNCHANGED <<env, abort, queries, articles, cursor, has_next_page, idx, postIdx>>
    /\ UNCHANGED DirVars

\* .await returns Err(_): .expect("Failed to fetch discussions") panics
GraphqlErr ==
    /\ pc = "await"
    /\ responses' = Append(responses, Failed)
    /\ Fatal("transport")
    /\ UNCHANGED <<env, queries, articles, cursor, has_next_page, idx, posts, postIdx>>
    /\ UNCHANGED DirVars

CurrentPage == responses[Len(responses)]

\* the body of `for discussion in ..["edges"]` for one edge
ProcessEdge ==
    /\ pc = "edges"
    /\ idx <= Len(CurrentPage.edges)
    /\ LET d == CurrentPage.edges[idx]
           split == SplitOnce(d.title)
       IN  /\ cursor' = NextCursor(cursor, d)
           /\ has_next_page' = CurrentPage.hasNextPage
           /\ IF split = None
              THEN Fatal("malformed") /\ UNCHANGED <<articles, idx>>
              ELSE /\ articles' = Append(articles, MakePost(d, split[1]))
                   /\ idx' = idx + 1
                   /\ UNCHANGED <<pc, abort>>
    /\ UNCHANGED <<env, queries, responses, posts, postIdx>>
    /\ UNCHANGED DirVars

\* `if !has_next_page { break; }` and, after the loop, Ok(articles)
EndPage ==
    /\ pc = "edges"
    /\ idx > Len(CurrentPage.edges)
    /\ IF ~has_next_page
       THEN pc' = "index" /\ posts' = Some(articles)
       ELSE pc' = "loop" /\ posts' = posts
    /\ UNCHANGED <<env, abort, postIdx>>
    /\ UNCHANGED FetchVars
    /\ UNCHANGED DirVars

-----------------------------------------------------------------------------
(* main: the pages *)

\* create_html(path, template): File::create(path)?, template.write_into(..)?
create_html(path, template, data, next) ==
    \E o \in CreateOutcomes :
       /\ files' = IF o = "create_err" THEN files
                   ELSE WriteFile(files, path, template, data, o = "ok")
       /\ IF o = "ok" THEN pc' = next /\ abort' = abort ELSE Fatal("fs")

\* an index page whose file is created before the owner id is read
CreateIndexFileFirst ==
    /\ pc = "index"
    /\ IF env.owner_id
       THEN create_html(IndexPath, "index", posts[1], "about")
       ELSE /\ files' = WriteFile(files, IndexPath, "index", <<>>, FALSE)
            /\ Fatal("owner_id")
    /\ UNCHANGED <<env, dist, subdirs, copied, copyIdx, posts, postIdx>>
    /\ UNCHANGED FetchVars

\* create_html("output/index.html", IndexTemplate { posts: &posts, owner })
CreateIndex ==
    /\ pc = "index"
    /\ IF env.owner_id
       THEN create_html(IndexPath, "index", posts[1], "about")
       ELSE Fatal("owner_id") /\ files' = files
    /\ UNCHANGED <<env, dist, subdirs, copied, copyIdx, posts, postIdx>>
    /\ UNCHANGED FetchVars

\* create_html("output/about.html", AboutTemplate { owner })
CreateAbout ==
    /\ pc = "about"
    /\ IF env.owner_id
       THEN create_html(AboutPath, "about", <<>>, "posts")
       ELSE Fatal("owner_id") /\ files' = files
    /\ UNCHANGED <<env, dist, subdirs, copied, copyIdx, posts, postIdx>>
    /\ UNCHANGED FetchVars

\* create_html("output/posts.html", PostsTemplate { posts: &posts, owner })
CreatePosts ==
    /\ pc = "posts"
    /\ IF env.owner_id
       THEN create_html(PostsPath, "posts", posts[1], "post_loop")
       ELSE Fatal("owner_id") /\ files' = files
    /\ UNCHANGED <<env, dist, subdirs, copied, copyIdx, posts, postIdx>>
    /\ UNCHANGED FetchVars

\* one iteration of `for post in posts`
CreatePostPage ==
    /\ pc = "post_loop"
    /\ postIdx <= Len(posts[1])
    /\ LET post == posts[1][postIdx]
       IN  IF post.status = "Draft"
           THEN postIdx' = postIdx + 1 /\ UNCHANGED <<pc, abort, files>>
           ELSE IF env.owner_id
                THEN /\ create_html(PostPath(post), "post", <<post>>, "post_loop")
                     /\ postIdx' = IF pc' = "aborted" THEN postIdx ELSE postIdx + 1
                ELSE Fatal("owner_id") /\ UNCHANGED <<files, postIdx>>
    /\ UNCHANGED <<env, dist, subdirs, copied, copyIdx, posts>>
    /\ UNCHANGED FetchVars

\* the loop is over: Ok(())
Finish ==
    /\ pc = "post_loop"
    /\ postIdx > Len(posts[1])
    /\ pc' = "done"
    /\ UNCHANGED <<env, abort, posts, postIdx>>
    /\ UNCHANGED DirVars
    /\ UNCHANGED FetchVars

-----------------------------------------------------------------------------
(* Specifications *)

Next ==
    \/ RemoveDirAll
    \/ CreateDist
    \/ CreatePostsDir
    \/ CopyAsset
    \/ CopyDone
    \/ FetchStart
    \/ IssueQuery
    \/ GraphqlOk
    \/ GraphqlErr
    \/ ProcessEdge
    \/ EndPage
    \/ CreateIndex
    \/ CreateAbout
    \/ CreatePosts
    \/ CreatePostPage
    \/ Finish

\* the whole build
Spec == Init /\ [][Next]_vars

NextNorm == ProcessEdge

\* the normalization of one discussion, over every title and category name
SpecNorm == InitNorm /\ [][NextNorm]_vars

-----------------------------------------------------------------------------
(* Vocabulary of the properties *)

RECURSIVE EdgesOf(_)
\* the discussions of a sequence of pages, in page order then edge order
EdgesOf(pages) ==
    IF pages = <<>> THEN <<>>
    ELSE EdgesOf(SubSeq(pages, 1, Len(pages) - 1)) \o pages[Len(pages)].edges

\* the Posts of a sequence of well-formed discussions, in the same order
PostsOf(ds) == [i \in 1..Len(ds) |-> MakePost(ds[i], SplitOnce(ds[i].title)[1])]

\* P1..Pn each hold an edge, P1..P(n-1) say hasNextPage, Pn does not
PagesShape(n) ==
    \A i \in 1..n : /\ responses[i].ok
                    /\ Len(responses[i].edges) >= 1
                    /\ responses[i].hasNextPage = (i < n)

Fetched == posts # None

Paths == {f.path : f \in files}

\* where a feed document would be
RssPath == <<"output/rss.xml">>

PublishedOf(ps) == {ps[i] : i \in {j \in 1..Len(ps) : ps[j].status = "Published"}}

\* the single discussion of the normalization runs, and its title
TheDiscussion == responses[1].edges[1]

TheTitle == TheDiscussion.title

HashCount == Cardinality(HashPositions(TheTitle))

FirstHash == Min(HashPositions(TheTitle))

LastHash == Max(HashPositions(TheTitle))

SegA == SubSeq(TheTitle, 1, FirstHash - 1)

SegB == SubSeq(TheTitle, FirstHash + 1, LastHash - 1)

SegC == SubSeq(TheTitle, LastHash + 1, Len(TheTitle))

\* the edge went through the loop body: a Post was pushed, or the process ended
Normalized == pc = "edges" /\ idx = 2

Processed == Normalized \/ pc = "aborted"

-----------------------------------------------------------------------------
(* Properties *)

\* C1: when the API answers with pages P1..Pn, each holding at least one edge,
\* P1..P(n-1) with hasNextPage = true and Pn with hasNextPage = false, then
\* exactly n queries are issued, the loop is left after Pn, and what
\* fetch_posts returns is the Posts of all discussions of P1..Pn in page order
\* and, within a page, in edge order.
C1_FetchConcatenatesPages ==
    \A n \in 1..Len(responses) :
        PagesShape(n) =>
            /\ Len(responses) = n
            /\ Len(queries) = n
            /\ pc # "loop"
            /\ (pc = "edges" /\ idx > Len(responses[n].edges)) => ~has_next_page
            /\ Fetched => posts[1] = PostsOf(EdgesOf(responses))

C1_Witness ==
    /\ Fetched
    /\ Len(responses) = 3
    /\ PagesShape(3)
    /\ Len(responses[2].edges) = 2
    /\ responses[2].edges[1] # responses[2].edges[2]
    /\ Len(posts[1]) >= 4

\* C2 (as claimed): no discussion whose category is not "Published" is in a
\* post collection rendered into a page of the output directory.
C2_DraftsNeverRendered ==
    \A f \in files : \A i \in 1..Len(f.posts) : f.posts[i].status = "Published"

\* C3 (as claimed): a title "A#B#C" normalizes to title A and slug C.
C3_ThreeSegments ==
    (Normalized /\ HashCount = 2) =>
        /\ articles[1].title = SegA
        /\ articles[1].slug = SegC

\* C3 (amended): a title "A#B#C" normalizes to a Post with title A and slug
\* "B#C", everything after the first '#'; a Post has no description.
C3_SplitAtFirstHash ==
    (Normalized /\ HashCount = 2) =>
        /\ Len(articles) = 1
        /\ articles[1].title = SegA
        /\ articles[1].slug = SegB \o <<"#">> \o SegC
        /\ DOMAIN articles[1] = {"title", "slug", "status"}

C3_Witness ==
    /\ Normalized
    /\ HashCount = 2
    /\ SegA # <<>> /\ SegB # <<>> /\ SegC # <<>>
    /\ SegA # SegC
    /\ articles[1].slug = SegB \o <<"#">> \o SegC

\* C4 (as claimed): a title with fewer than two '#' makes normalization fail:
\* no Post is appended and the build aborts.
C4_FewerThanTwoHashesFail ==
    (Processed /\ HashCount < 2) =>
        /\ abort = "malformed"
        /\ pc = "aborted"
        /\ articles = <<>>

\* C4 (amended): a title with no '#' makes normalization fail: no Post is
\* appended and the build aborts; a title with exactly one '#', "A#C", is
\* accepted and yields a Post with title A and slug C.
C4_NoHashFails ==
    Processed =>
        /\ HashCount = 0 => /\ abort = "malformed"
                            /\ pc = "aborted"
                            /\ articles = <<>>
        /\ HashCount = 1 => /\ abort = "none"
                            /\ Normalized
                            /\ Len(articles) = 1
                            /\ articles[1].title = SegA
                            /\ articles[1].slug = SegC

C4_Witness ==
    /\ Processed
    /\ HashCount = 0
    /\ TheTitle # <<>>
    /\ abort = "malformed"
    /\ articles = <<>>

\* C5 (as claimed): when the build aborts because GITHUB_TOKEN or
\* GITHUB_REPOSITORY_OWNER_ID is unset, no asset has been copied, no query
\* executed and no page file created.
C5_AbortsBeforeAnyOutput ==
    abort \in {"token", "owner_id"} =>
        /\ copied = {}
        /\ queries = <<>>
        /\ files = {}

\* C5 (amended): an unset GITHUB_TOKEN aborts the build after the output
\* directory was reset and every asset copied, before any query and any page
\* file; an unset GITHUB_REPOSITORY_OWNER_ID aborts it after the assets were
\* copied and fetch_posts has run its queries and returned, before any page
\* file is created.
C5_ConfigAbortPoints ==
    /\ abort = "token" =>
          /\ ~env.token
          /\ pc = "aborted"
          /\ dist = "present" /\ subdirs = {"posts"}
          /\ copied = 1..NumAssets
          /\ queries = <<>>
          /\ files = {}
    /\ abort = "owner_id" =>
          /\ ~env.owner_id /\ env.token
          /\ pc = "aborted"
          /\ copied = 1..NumAssets
          /\ Len(queries) >= 1 /\ Len(responses) = Len(queries)
          /\ Fetched
          /\ files = {}
    /\ ~env.token => queries = <<>> /\ ~Fetched
    /\ (~env.owner_id /\ Fetched) => files = {} /\ pc \in {"index", "aborted"}

C5_Witness ==
    /\ abort = "owner_id"
    /\ copied = 1..NumAssets /\ copied # {}
    /\ Len(queries) >= 2
    /\ files = {}

\* C6 (as claimed): a build that completes has written index.html,
\* about.html, posts.html, rss.xml and posts/<slug>.html for each published post.
C6_FiveArtifactKinds ==
    pc = "done" =>
        /\ {IndexPath, AboutPath, PostsPath, RssPath} \subseteq Paths
        /\ \A p \in PublishedOf(posts[1]) :
              <<"output/posts/">> \o p.slug \o <<".html">> \in Paths

\* C6 (amended): a build that completes has written exactly index.html,
\* about.html, posts.html and, for each published post, posts/<slug>.html
\* rendered from a published post of that slug; it writes no rss.xml.
C6_FourArtifactKinds ==
    pc = "done" =>
        /\ Paths = {IndexPath, AboutPath, PostsPath}
                     \cup {<<"output/posts/">> \o p.slug \o <<".html">> :
                              p \in PublishedOf(posts[1])}
        /\ RssPath \notin Paths
        /\ Cardinality(files) = Cardinality(Paths)
        /\ \A f \in files :
              /\ f.complete
              /\ f.template = "post" =>
                    \E p \in PublishedOf(posts[1]) :
                        /\ f.posts = <<p>>
                        /\ f.path = <<"output/posts/">> \o p.slug \o <<".html">>

C6_Witness ==
    /\ pc = "done"
    /\ PublishedOf(posts[1]) # {}
    /\ \E i \in 1..Len(posts[1]) : posts[1][i].status = "Draft"
    /\ Cardinality(files) = 4

\* C7: a failed query execution ends the build at once: it is the last
\* query, nothing is returned from fetch_posts, and no page file exists.
C7_QueryFailureIsFatal ==
    \A i \in 1..Len(responses) :
        ~responses[i].ok =>
            /\ i = Len(responses)
            /\ Len(queries) = i
            /\ pc = "aborted" /\ abort = "transport"
            /\ ~Fetched
            /\ files = {}

C7_Witness ==
    /\ Len(responses) = 3
    /\ ~responses[3].ok
    /\ Len(articles) >= 2
    /\ pc = "aborted"

\* C8: the status of a normalized Post is Published exactly when the
\* category name is the string "Published", and Draft otherwise.
C8_StatusFromCategory ==
    Normalized =>
        articles[1].status =
            IF TheDiscussion.category = "Published" THEN "Published" ELSE "Draft"

C8_Witness ==
    /\ Normalized
    /\ TheDiscussion.category = "published"
    /\ articles[1].status = "Draft"

\* C9 (as claimed): no query is issued after the first response whose
\* hasNextPage is false, whatever the number of edges of that response.
C9_StopsAtFirstFalseFlag ==
    \A i \in 1..Len(responses) :
        (responses[i].ok /\ ~responses[i].hasNextPage) => Len(queries) <= i

\* C10: the first query carries no cursor; the (k+1)-th query carries the
\* cursor of the last edge of the k-th page (the cursor of the k-th query when
\* that page has no edge), and while it is in flight every edge of the pages
\* received so far has been processed.
C10_CursorChain ==
    /\ Len(queries) >= 1 => queries[1].after = None
    /\ Len(responses) <= Len(queries)
    /\ \A k \in 1..(Len(queries) - 1) :
          LET e == responses[k].edges
          IN  queries[k + 1].after =
                 IF Len(e) >= 1 THEN Some(e[Len(e)].cursor) ELSE queries[k].after
    /\ pc = "await" =>
          /\ Len(responses) = Len(queries) - 1
          /\ Len(articles) = Len(EdgesOf(responses))

C10_Witness ==
    /\ Len(queries) = 3
    /\ Len(responses[2].edges) = 2
    /\ responses[2].edges[1].cursor # responses[2].edges[2].cursor
    /\ queries[3].after = Some(responses[2].edges[2].cursor)

====
